---- MODULE Spec2Model ----
(***************************************************************************)
(* edbrute: a controller thread and NumWorkers worker threads search for   *)
(* the ed25519 key pair whose public key, read as a big-endian u128, is    *)
(* the largest.  The model follows src/src/main.rs statement by statement: *)
(* run_main spawns the workers, run_controller opens and loads the         *)
(* checkpoint file, dispatches the first threshold and then serves the     *)
(* shared channel; run_worker searches in batches.                         *)
(***************************************************************************)
EXTENDS Integers, Sequences, FiniteSets, TLC

(* ------------------------------ bounds -------------------------------- *)

\* number of worker threads (num_threads, main.rs:35, a run-time input)
NumWorkers == 2
\* capacity of every sync_channel (64 in main.rs:40 and :43, scaled down)
ChanCap == 1
\* iterations of one worker batch (u16::MAX in main.rs:120, scaled down)
BatchSize == 2
\* how many values above 9 a generated key may take
ExtraValues == 0
\* the bytes of a public key after its first 16 take values 0..MaxLo
MaxLo == 0
\* how many times the process may be killed and started again
MaxRestarts == 1
\* longest checkpoint file present before the first run
InitFileLen == 1
\* startup alone is also checked on longer files whose keys may agree in
\* their first 16 bytes and differ after them: the remaining bytes of a saved
\* key take values 0..SavedMaxLo, and a file has at most StartupFileLen lines
SavedMaxLo == 1
StartupFileLen == 3

Workers == 1..NumWorkers

\* ComparableValues a key may have: a sample of the u128 range
Values == {1, 3, 5, 9} \cup {9 + i : i \in 1..ExtraValues}

\* A Keypair: hi is the first 16 bytes of the public key (big-endian), lo
\* the remaining bytes.
Keys == [hi : Values, lo : 0..MaxLo]

\* no key pair / no value bound yet (the variable is not in scope yet)
NoKey == [hi |-> 0, lo |-> 0]
NoValue == 0

(* --------------------------- pure functions --------------------------- *)

\* main.rs:157-159: only the first 16 bytes of the public key count
public_key_to_u128(keypair) == keypair.hi

\* A line of the checkpoint file.  kind says how far parsing gets:
\*   "entry"      <public hex>,<secret hex> of a valid key pair
\*   "nocomma"    split_once(',') finds no comma            (main.rs:175)
\*   "badhex"     hex::decode fails                         (main.rs:176)
\*   "badlen"     PublicKey/SecretKey::from_bytes fails     (main.rs:178-179)
\*   "unreadable" BufRead::lines yields Err (invalid UTF-8) (main.rs:174)
LineKinds == {"entry", "nocomma", "badhex", "badlen", "unreadable"}
BadLines == {[kind |-> k, key |-> NoKey] : k \in LineKinds \ {"entry"}}

\* main.rs:149-155
serialize_keypair(keypair) == [kind |-> "entry", key |-> keypair]

Lines == {serialize_keypair(k) : k \in Keys} \cup BadLines

\* the key pairs a checkpoint file written by earlier runs may hold, and the
\* lines of such a file
SavedKeys == [hi : Values, lo : 0..SavedMaxLo]
SavedLines == {serialize_keypair(k) : k \in SavedKeys} \cup BadLines

\* main.rs:174: reader.lines().flatten() drops every Err item
RECURSIVE FlattenLines(_)
FlattenLines(lines) ==
    IF lines = <<>> THEN <<>>
    ELSE IF Head(lines).kind = "unreadable" THEN FlattenLines(Tail(lines))
    ELSE <<Head(lines)>> \o FlattenLines(Tail(lines))

\* main.rs:175-182: one line parsed; `?` returns the error
ParseLine(line) ==
    IF line.kind = "nocomma" THEN [ok |-> FALSE, err |-> "malformed keypair line", key |-> NoKey]
    ELSE IF line.kind = "badhex" THEN [ok |-> FALSE, err |-> "invalid hex", key |-> NoKey]
    ELSE IF line.kind = "badlen" THEN [ok |-> FALSE, err |-> "invalid key bytes", key |-> NoKey]
    ELSE [ok |-> TRUE, err |-> "", key |-> line.key]

\* faulty variant of MaxByKeyFrom: keeps the earlier of two equal maxima
RECURSIVE MaxByKeyFromFirst(_, _)
MaxByKeyFromFirst(best, keypairs) ==
    IF keypairs = <<>> THEN best
    ELSE MaxByKeyFromFirst(IF public_key_to_u128(best) >= public_key_to_u128(Head(keypairs))
                              THEN best ELSE Head(keypairs),
                           Tail(keypairs))

\* main.rs:185: Iterator::max_by_key keeps the later of two equal maxima
RECURSIVE MaxByKeyFrom(_, _)
MaxByKeyFrom(best, keypairs) ==
    IF keypairs = <<>> THEN best
    ELSE MaxByKeyFrom(IF public_key_to_u128(best) > public_key_to_u128(Head(keypairs))
                         THEN best ELSE Head(keypairs),
                      Tail(keypairs))

MaxByKey(keypairs) ==
    IF keypairs = <<>> THEN NoKey ELSE MaxByKeyFrom(Head(keypairs), Tail(keypairs))

\* main.rs:173-183: the loop pushes parsed key pairs until a line fails
RECURSIVE ParseAll(_, _)
ParseAll(lines, keypairs) ==
    IF lines = <<>> THEN [ok |-> TRUE, err |-> "", keypairs |-> keypairs]
    ELSE LET p == ParseLine(Head(lines)) IN
         IF ~p.ok THEN [ok |-> FALSE, err |-> p.err, keypairs |-> keypairs]
         ELSE ParseAll(Tail(lines), Append(keypairs, p.key))

\* main.rs:161-187 after a successful open: Ok((file, starting_key)) or Err
checkpoint_with_largest_keypair(contents) ==
    LET r == ParseAll(FlattenLines(contents), <<>>) IN
    IF r.ok THEN [ok |-> TRUE, err |-> "", starting_key |-> MaxByKey(r.keypairs)]
    ELSE [ok |-> FALSE, err |-> r.err, starting_key |-> NoKey]

(* ------------------------------- state -------------------------------- *)

VARIABLES
    file,            \* checkpoint.log: the lines on disk (survives a restart)
    proc,            \* "running" | "exited": the process
    exit_code,       \* exit status of the process once it has exited
    reports,         \* how many times main printed an error (main.rs:29)
    ctl_pc,          \* where the main thread is
    ctl_idx,         \* index of the for loops at main.rs:42, :73 and :88
    ctl_err,         \* the error run_controller returned, "" if none
    largest_value,   \* run_controller's largest_value
    largest_keypair, \* run_controller's largest_keypair
    keypair,         \* the candidate bound at main.rs:82
    w_pc,            \* where each worker thread is
    w_largest,       \* run_worker's largest_value
    w_iter,          \* the batch loop counter at main.rs:122
    w_pair,          \* the pair a worker is sending at main.rs:127
    to_controller,   \* the shared channel, workers to controller
    to_thread,       \* one channel per worker, controller to worker
    \* history variables, read only by the properties
    file0,           \* the file as it was when this run opened it
    held,            \* the values largest_value has taken in this run, in order
    sent,            \* per worker: the values sent on its channel, in order
    adopted,         \* per worker: the threshold it last took from its channel
    reported,        \* per worker: the value it last sent as Largest
    arrived,         \* the Largest messages received in this run, with the verdict
    best_prev,       \* greatest largest_value held in any earlier run
    restarts         \* how many times the process was started again

vars == <<file, proc, exit_code, reports, ctl_pc, ctl_idx, ctl_err, largest_value,
          largest_keypair, keypair, w_pc, w_largest, w_iter, w_pair,
          to_controller, to_thread, file0, held, sent, adopted, reported, arrived,
          best_prev,
          restarts>>

ctl_vars == <<ctl_pc, ctl_idx, ctl_err, largest_value, largest_keypair, keypair>>
wrk_vars == <<w_pc, w_largest, w_iter, w_pair>>
proc_vars == <<proc, exit_code, reports>>
hist_run == <<file0, best_prev, restarts>>

\* The volatile state of a freshly started process: main.rs:33-40
Fresh ==
    /\ proc = "running"
    /\ exit_code = -1
    /\ reports = 0
    /\ ctl_pc = "spawn"
    /\ ctl_idx = 1
    /\ ctl_err = ""
    /\ largest_value = NoValue
    /\ largest_keypair = NoKey
    /\ keypair = NoKey
    /\ w_pc = [w \in Workers |-> "unspawned"]
    /\ w_largest = [w \in Workers |-> NoValue]
    /\ w_iter = [w \in Workers |-> 0]
    /\ w_pair = [w \in Workers |-> NoKey]
    /\ to_controller = <<>>
    /\ to_thread = [w \in Workers |-> <<>>]
    /\ held = <<>>
    /\ sent = [w \in Workers |-> <<>>]
    /\ adopted = [w \in Workers |-> NoValue]
    /\ reported = [w \in Workers |-> NoValue]
    /\ arrived = <<>>


(* ------------------------------ helpers ------------------------------- *)

Max(a, b) == IF a > b THEN a ELSE b

RECURSIVE SeqMax(_)
SeqMax(s) == IF s = <<>> THEN 0 ELSE Max(Head(s), SeqMax(Tail(s)))

\* every checkpoint file of at most n lines
FilesUpTo(n) == UNION {[1..k -> Lines] : k \in 0..n}

\* WorkerMessage (main.rs:14-17); from names the sending worker and is read
\* only by the properties
Largest(pair, w) == [kind |-> "Largest", key |-> pair, delta |-> 0, from |-> w]
Progress(w) == [kind |-> "Progress", key |-> NoKey, delta |-> BatchSize, from |-> w]

\* run_controller has returned or unwound: its to_threads senders and its
\* from_threads receiver are dropped (main.rs:59-62 owns both)
ControllerGone == ctl_pc \in {"failed", "panicked"}

\* run_worker has returned or unwound: its from_controller receiver is dropped
WorkerGone(w) == w_pc[w] \in {"terminated", "panicked"}

(* --------------------------- the main thread -------------------------- *)

\* main.rs:42-52: one iteration of the spawn loop; the thread starts at
\* main.rs:116 and the channel pair of main.rs:43 is created empty
SpawnWorker ==
    /\ proc = "running"
    /\ ctl_pc = "spawn"
    /\ w_pc' = [w_pc EXCEPT ![ctl_idx] = "await"]
    /\ IF ctl_idx = NumWorkers
          THEN ctl_pc' = "open" /\ ctl_idx' = 1
          ELSE ctl_pc' = "spawn" /\ ctl_idx' = ctl_idx + 1
    /\ UNCHANGED <<file, proc_vars, ctl_err, largest_value, largest_keypair, keypair,
                   w_largest, w_iter, w_pair, to_controller, to_thread,
                   held, sent, adopted, reported, arrived, hist_run>>

\* main.rs:164-169: File::options().create(true).read(true).append(true).open
\* either succeeds or fails with an I/O error, returned through `?` at :169
\* and :67
CtlOpen ==
    /\ proc = "running"
    /\ ctl_pc = "open"
    /\ \/ ctl_pc' = "load" /\ ctl_err' = ctl_err
       \/ ctl_pc' = "failed" /\ ctl_err' = "unable to open checkpoint file"
    /\ UNCHANGED <<file, proc_vars, ctl_idx, largest_value, largest_keypair, keypair,
                   wrk_vars, to_controller, to_thread, held, sent, adopted, reported,
                   arrived, hist_run>>

\* main.rs:171-186 and :65-72: the lines are parsed; an error returns, else
\* the incumbent is the saved maximum or a freshly generated key pair
CtlLoad ==
    /\ proc = "running"
    /\ ctl_pc = "load"
    /\ LET r == checkpoint_with_largest_keypair(file) IN
       IF ~r.ok
          THEN /\ ctl_pc' = "failed"
               /\ ctl_err' = r.err
               /\ UNCHANGED <<largest_value, largest_keypair, held>>
          ELSE /\ \E fresh \in Keys :
                     largest_keypair' = IF r.starting_key = NoKey THEN fresh
                                        ELSE r.starting_key
               /\ largest_value' = public_key_to_u128(largest_keypair')
               /\ held' = <<largest_value'>>
               /\ ctl_pc' = "dispatch"
               /\ ctl_err' = ctl_err
    /\ UNCHANGED <<file, proc_vars, ctl_idx, keypair, wrk_vars, to_controller,
                   to_thread, sent, adopted, reported, arrived, hist_run>>

\* sender.send(largest_value).unwrap() (main.rs:74 and :89) to worker w, then
\* the loop moves on; after the last worker the main thread is at `after`.
\* A SyncSender blocks while the buffer is full and fails, so that unwrap
\* panics, once the receiver is dropped.
SendThreshold(w, after) ==
    IF WorkerGone(w)
       THEN /\ ctl_pc' = "panicked"
            /\ UNCHANGED <<ctl_idx, to_thread, sent>>
       ELSE /\ Len(to_thread[w]) < ChanCap
            /\ to_thread' = [to_thread EXCEPT ![w] = Append(@, largest_value)]
            /\ sent' = [sent EXCEPT ![w] = Append(@, largest_value)]
            /\ IF w = NumWorkers
                  THEN ctl_pc' = after /\ ctl_idx' = 1
                  ELSE ctl_pc' = ctl_pc /\ ctl_idx' = w + 1

\* main.rs:73-75: the initial dispatch, one send per step
CtlDispatch ==
    /\ proc = "running"
    /\ ctl_pc = "dispatch"
    /\ SendThreshold(ctl_idx, "recv")
    /\ UNCHANGED <<file, proc_vars, ctl_err, largest_value, largest_keypair, keypair,
                   wrk_vars, to_controller, held, adopted, reported, arrived, hist_run>>

\* faulty variants of Accepts: `>=` for `>`, and no comparison at all
AcceptsOrEqual(value) == value >= largest_value
AcceptsAny(value) == TRUE

\* value > largest_value at main.rs:85
Accepts(value) == value > largest_value

\* main.rs:80-86 and :107-109: one message is received.  A Largest whose
\* value is greater becomes largest_value; any other Largest is dropped; a
\* Progress only advances the spinner, which is display and not modelled.
\* run_main keeps its own to_controller sender alive (main.rs:40), so recv
\* never returns Err while run_controller runs.
CtlRecv ==
    /\ proc = "running"
    /\ ctl_pc = "recv"
    /\ to_controller # <<>>
    /\ to_controller' = Tail(to_controller)
    /\ LET m == Head(to_controller)
           value == public_key_to_u128(m.key)
       IN  /\ IF m.kind = "Largest" /\ Accepts(value)
                 THEN /\ largest_value' = value
                      /\ held' = Append(held, value)
                      /\ keypair' = m.key
                      /\ ctl_pc' = "fanout"
                 ELSE UNCHANGED <<largest_value, held, keypair, ctl_pc>>
           /\ arrived' = IF m.kind = "Largest"
                            THEN Append(arrived, [value |-> value,
                                                  accepted |-> ctl_pc' = "fanout"])
                            ELSE arrived
    /\ UNCHANGED <<file, proc_vars, ctl_idx, ctl_err, largest_keypair, wrk_vars,
                   to_thread, sent, adopted, reported, hist_run>>

\* faulty variant of Promote: the assignment is forgotten
PromoteKeepsOld(old, candidate) == old

\* largest_keypair = keypair at main.rs:92
Promote(old, candidate) == candidate

\* main.rs:88-92: the fan-out of an accepted value, one send per step; after
\* the last send the candidate becomes largest_keypair
CtlFanout ==
    /\ proc = "running"
    /\ ctl_pc = "fanout"
    /\ SendThreshold(ctl_idx, "append")
    /\ largest_keypair' = IF ctl_pc' = "append" THEN Promote(largest_keypair, keypair)
                          ELSE largest_keypair
    /\ keypair' = IF ctl_pc' = "append" THEN NoKey ELSE keypair
    /\ UNCHANGED <<file, proc_vars, ctl_err, largest_value, wrk_vars, to_controller,
                   held, adopted, reported, arrived, hist_run>>

\* main.rs:94-104: writeln! and flush.  Either the line is on disk and the
\* loop goes on, or the write fails and `?` returns the error; a failed
\* write may leave nothing or the torn start of the line on disk.
CtlAppend ==
    /\ proc = "running"
    /\ ctl_pc = "append"
    /\ \/ /\ file' = Append(file, serialize_keypair(largest_keypair))
          /\ ctl_pc' = "recv"
          /\ ctl_err' = ctl_err
       \/ /\ file' \in {file, Append(file, [kind |-> "nocomma", key |-> NoKey])}
          /\ ctl_pc' = "failed"
          /\ ctl_err' = "unable to save keypair to checkpoint file"
    /\ UNCHANGED <<proc_vars, ctl_idx, largest_value, largest_keypair, keypair,
                   wrk_vars, to_controller, to_thread, held, sent, adopted, reported,
                   arrived, hist_run>>

\* main.rs:27-31 and :54-56: the error reaches main, which prints it and
\* returns, so the process ends with status 0.  A panic of the main thread
\* ends the process with status 101 and main prints nothing.
MainExit ==
    /\ proc = "running"
    /\ ControllerGone
    /\ proc' = "exited"
    /\ IF ctl_pc = "failed"
          THEN reports' = reports + 1 /\ exit_code' = 0
          ELSE reports' = reports /\ exit_code' = 101
    /\ UNCHANGED <<file, ctl_vars, wrk_vars, to_controller, to_thread,
                   held, sent, adopted, reported, arrived, hist_run>>

(* ----------------------------- the workers ---------------------------- *)

\* faulty variant of WorkerAwait: the worker starts to search without waiting
\* for its first threshold
WorkerAwaitSkips(w) ==
    /\ proc = "running"
    /\ w_pc[w] = "await"
    /\ w_pc' = [w_pc EXCEPT ![w] = "search"]
    /\ UNCHANGED <<file, proc_vars, ctl_vars, w_largest, w_iter, w_pair, to_controller,
                   to_thread, held, sent, adopted, reported, arrived, hist_run>>

\* main.rs:118: from_controller.recv().unwrap() blocks for the first
\* threshold; with the sender dropped and nothing buffered it panics
WorkerAwait(w) ==
    /\ proc = "running"
    /\ w_pc[w] = "await"
    /\ IF to_thread[w] # <<>>
          THEN /\ w_largest' = [w_largest EXCEPT ![w] = Head(to_thread[w])]
               /\ adopted' = [adopted EXCEPT ![w] = Head(to_thread[w])]
               /\ to_thread' = [to_thread EXCEPT ![w] = Tail(@)]
               /\ w_pc' = [w_pc EXCEPT ![w] = "search"]
          ELSE /\ ControllerGone
               /\ w_pc' = [w_pc EXCEPT ![w] = "panicked"]
               /\ UNCHANGED <<w_largest, adopted, to_thread>>
    /\ UNCHANGED <<file, proc_vars, ctl_vars, w_iter, w_pair, to_controller,
                   held, sent, reported, arrived, hist_run>>

\* faulty variant of Reports: `>=` for `>`
ReportsOrEqual(w, value) == value >= w_largest[w]

\* value > largest_value at main.rs:126
Reports(w, value) == value > w_largest[w]

\* faulty variant of AfterDiscard: the assignment of main.rs:128 moved out of
\* the if
AfterDiscardAdopts(w, value) == value

\* the threshold a worker keeps when a pair is not greater (main.rs:126-129:
\* the if has no else)
AfterDiscard(w, value) == w_largest[w]

\* main.rs:122-126: one iteration generates a pair; a greater one is to be
\* sent, any other is dropped
WorkerGenerate(w) ==
    /\ proc = "running"
    /\ w_pc[w] = "search"
    /\ w_iter[w] < BatchSize
    /\ \E pair \in Keys :
          IF Reports(w, public_key_to_u128(pair))
             THEN /\ w_pair' = [w_pair EXCEPT ![w] = pair]
                  /\ w_pc' = [w_pc EXCEPT ![w] = "send_largest"]
                  /\ UNCHANGED <<w_iter, w_largest>>
             ELSE /\ w_iter' = [w_iter EXCEPT ![w] = @ + 1]
                  /\ w_largest' = [w_largest EXCEPT
                                     ![w] = AfterDiscard(w, public_key_to_u128(pair))]
                  /\ UNCHANGED <<w_pair, w_pc>>
    /\ UNCHANGED <<file, proc_vars, ctl_vars, to_controller, to_thread,
                   held, sent, adopted, reported, arrived, hist_run>>

\* faulty variant of AfterReport: the worker raises its threshold past the
\* value it reported
AfterReportOvershoots(w, value) == value + 2

\* the threshold a worker keeps after reporting `value` (main.rs:128)
AfterReport(w, value) == value

\* main.rs:127-128: to_controller.send(Largest(pair)).unwrap() blocks while
\* the shared channel is full and panics once the controller's receiver is
\* dropped; then the worker raises its own threshold
WorkerSendLargest(w) ==
    /\ proc = "running"
    /\ w_pc[w] = "send_largest"
    /\ IF ControllerGone
          THEN /\ w_pc' = [w_pc EXCEPT ![w] = "panicked"]
               /\ UNCHANGED <<to_controller, w_largest, w_iter, w_pair, reported>>
          ELSE /\ Len(to_controller) < ChanCap
               /\ to_controller' = Append(to_controller, Largest(w_pair[w], w))
               /\ w_largest' = [w_largest EXCEPT
                                  ![w] = AfterReport(w, public_key_to_u128(w_pair[w]))]
               /\ reported' = [reported EXCEPT ![w] = public_key_to_u128(w_pair[w])]
               /\ w_iter' = [w_iter EXCEPT ![w] = @ + 1]
               /\ w_pair' = [w_pair EXCEPT ![w] = NoKey]
               /\ w_pc' = [w_pc EXCEPT ![w] = "search"]
    /\ UNCHANGED <<file, proc_vars, ctl_vars, to_thread, held, sent, adopted, arrived, hist_run>>

\* the threshold a worker keeps after try_recv returned Ok(largest_found)
\* (main.rs:133)
AfterPoll(w, largest_found) == largest_found

\* main.rs:132-134: after the batch, try_recv takes at most one threshold
\* and the worker adopts it
WorkerTryRecv(w) ==
    /\ proc = "running"
    /\ w_pc[w] = "search"
    /\ w_iter[w] = BatchSize
    /\ IF to_thread[w] # <<>>
          THEN /\ w_largest' = [w_largest EXCEPT ![w] = AfterPoll(w, Head(to_thread[w]))]
               /\ adopted' = [adopted EXCEPT ![w] = Head(to_thread[w])]
               /\ to_thread' = [to_thread EXCEPT ![w] = Tail(@)]
          ELSE UNCHANGED <<w_largest, adopted, to_thread>>
    /\ w_pc' = [w_pc EXCEPT ![w] = "send_progress"]
    /\ UNCHANGED <<file, proc_vars, ctl_vars, w_iter, w_pair, to_controller,
                   held, sent, reported, arrived, hist_run>>

\* faulty variant of WorkerSendProgress: the send does not wait for room (as
\* try_send would), so a full shared channel ends the worker
WorkerSendProgressGivesUp(w) ==
    /\ proc = "running"
    /\ w_pc[w] = "send_progress"
    /\ IF ControllerGone \/ Len(to_controller) >= ChanCap
          THEN /\ w_pc' = [w_pc EXCEPT ![w] = "terminated"]
               /\ UNCHANGED <<to_controller, w_iter>>
          ELSE /\ to_controller' = Append(to_controller, Progress(w))
               /\ w_iter' = [w_iter EXCEPT ![w] = 0]
               /\ w_pc' = [w_pc EXCEPT ![w] = "search"]
    /\ UNCHANGED <<file, proc_vars, ctl_vars, w_largest, w_pair, to_thread,
                   held, sent, adopted, reported, arrived, hist_run>>

\* main.rs:136-141: the Progress send blocks while the shared channel is
\* full; when it fails the worker leaves its loop and returns
WorkerSendProgress(w) ==
    /\ proc = "running"
    /\ w_pc[w] = "send_progress"
    /\ IF ControllerGone
          THEN /\ w_pc' = [w_pc EXCEPT ![w] = "terminated"]
               /\ UNCHANGED <<to_controller, w_iter>>
          ELSE /\ Len(to_controller) < ChanCap
               /\ to_controller' = Append(to_controller, Progress(w))
               /\ w_iter' = [w_iter EXCEPT ![w] = 0]
               /\ w_pc' = [w_pc EXCEPT ![w] = "search"]
    /\ UNCHANGED <<file, proc_vars, ctl_vars, w_largest, w_pair, to_thread,
                   held, sent, adopted, reported, arrived, hist_run>>

(* --------------------------- the environment -------------------------- *)

\* The process is killed from outside, or has exited, and is started again:
\* every thread and channel is gone, the file stays
KillRestart ==
    /\ restarts < MaxRestarts
    /\ restarts' = restarts + 1
    /\ best_prev' = Max(best_prev, SeqMax(held))
    /\ file' = file
    /\ file0' = file
    /\ proc' = "running"
    /\ exit_code' = -1
    /\ reports' = 0
    /\ ctl_pc' = "spawn"
    /\ ctl_idx' = 1
    /\ ctl_err' = ""
    /\ largest_value' = NoValue
    /\ largest_keypair' = NoKey
    /\ keypair' = NoKey
    /\ w_pc' = [w \in Workers |-> "unspawned"]
    /\ w_largest' = [w \in Workers |-> NoValue]
    /\ w_iter' = [w \in Workers |-> 0]
    /\ w_pair' = [w \in Workers |-> NoKey]
    /\ to_controller' = <<>>
    /\ to_thread' = [w \in Workers |-> <<>>]
    /\ held' = <<>>
    /\ sent' = [w \in Workers |-> <<>>]
    /\ adopted' = [w \in Workers |-> NoValue]
    /\ reported' = [w \in Workers |-> NoValue]
    /\ arrived' = <<>>

(* --------------------------- specifications --------------------------- *)

InitWith(files) ==
    /\ file \in files
    /\ file0 = file
    /\ best_prev = 0
    /\ restarts = 0
    /\ Fresh

Init == InitWith(FilesUpTo(InitFileLen))

\* the first run finds no checkpoint file
InitRestart == InitWith({<<>>})

Controller ==
    \/ SpawnWorker
    \/ CtlOpen
    \/ CtlLoad
    \/ CtlDispatch
    \/ CtlRecv
    \/ CtlFanout
    \/ CtlAppend
    \/ MainExit

Worker(w) ==
    \/ WorkerAwait(w)
    \/ WorkerGenerate(w)
    \/ WorkerSendLargest(w)
    \/ WorkerTryRecv(w)
    \/ WorkerSendProgress(w)

Next == Controller \/ \E w \in Workers : Worker(w)

Spec == Init /\ [][Next]_vars

NextRestart == Next \/ KillRestart

SpecRestart == InitRestart /\ [][NextRestart]_vars

\* Startup alone (main.rs:33-75 and the handshake of :118), on every
\* checkpoint file of at most StartupFileLen lines over SavedLines
StartupFiles == UNION {[1..k -> SavedLines] : k \in 0..StartupFileLen}

InitStartup == InitWith(StartupFiles)

NextStartup ==
    \/ SpawnWorker
    \/ CtlOpen
    \/ CtlLoad
    \/ CtlDispatch
    \/ MainExit
    \/ \E w \in Workers : WorkerAwait(w)

SpecStartup == InitStartup /\ [][NextStartup]_vars

(* ----------------------- words for the properties --------------------- *)

Range(s) == {s[i] : i \in 1..Len(s)}

Front(s) == SubSeq(s, 1, Len(s) - 1)

Last(s) == s[Len(s)]

\* the lines this run has added to the file
NewEntries == SubSeq(file, Len(file0) + 1, Len(file))

EntryValues(lines) == [i \in 1..Len(lines) |-> public_key_to_u128(lines[i].key)]

ArrivedValues == [i \in 1..Len(arrived) |-> arrived[i].value]

ArrivedValuesSet == {arrived[i].value : i \in 1..Len(arrived)}

ArrivedVerdicts == [i \in 1..Len(arrived) |-> arrived[i].accepted]

\* largest_value as it was when the i-th Largest message had been handled
RECURSIVE ThresholdAfter(_)
ThresholdAfter(i) ==
    IF i = 0 THEN held[1]
    ELSE IF arrived[i].accepted THEN arrived[i].value
    ELSE ThresholdAfter(i - 1)

\* the controller has an incumbent: it is past main.rs:72
Initialised == held # <<>>

\* the worker is past the handshake of main.rs:118 and still running
Searching(w) == w_pc[w] \in {"search", "send_largest", "send_progress"}

\* the main thread waits in a send to a worker whose channel is full
BlockedInSend ==
    /\ ctl_pc \in {"dispatch", "fanout"}
    /\ ~WorkerGone(ctl_idx)
    /\ Len(to_thread[ctl_idx]) >= ChanCap

\* the worker waits in a send to the full shared channel
WorkerBlocked(w) ==
    /\ w_pc[w] \in {"send_largest", "send_progress"}
    /\ ~ControllerGone
    /\ Len(to_controller) >= ChanCap

(* -------------------------------- C1 ---------------------------------- *)

\* the well-formed entries this run has added to the file
AppendedValues == EntryValues(SelectSeq(NewEntries, LAMBDA l : l.kind = "entry"))

AcceptedValues ==
    LET acc == SelectSeq(arrived, LAMBDA a : a.accepted)
    IN  [i \in 1..Len(acc) |-> acc[i].value]

\* C1: a Largest message is accepted exactly when its value is strictly
\* greater than the largest_value of that moment.  The file gains exactly
\* one entry per accepted candidate, in order (the entry of the candidate
\* being handled is the only one that can be missing), and once the
\* controller is back at its receive every worker has been sent the
\* incumbent's value followed by one value per accepted candidate, and
\* nothing else; a rejected candidate adds nothing.  In particular arrivals
\* 5, 3, 9 against an initial 1 give accept, reject, accept, the new entries
\* 5 and 9, and 9 as the last threshold sent.
C1_AcceptStrictlyGreater ==
    Initialised =>
        /\ \A i \in 1..Len(arrived) :
              arrived[i].accepted <=> (arrived[i].value > ThresholdAfter(i - 1))
        /\ Tail(held) = AcceptedValues
        /\ AppendedValues = IF ctl_pc \in {"dispatch", "recv"} THEN AcceptedValues
                            ELSE Front(AcceptedValues)
        /\ ctl_pc = "recv" => \A w \in Workers : sent[w] = <<held[1]>> \o AcceptedValues
        /\ (ctl_pc = "recv" /\ held[1] = 1 /\ ArrivedValues = <<5, 3, 9>>) =>
              /\ ArrivedVerdicts = <<TRUE, FALSE, TRUE>>
              /\ AppendedValues = <<5, 9>>
              /\ \A w \in Workers : Last(sent[w]) = 9

\* 5, 3 and 9 have arrived in that order against an initial threshold of 1
C1_Witness ==
    /\ ctl_pc = "recv"
    /\ Initialised
    /\ held[1] = 1
    /\ ArrivedValues = <<5, 3, 9>>

(* -------------------------------- C2 ---------------------------------- *)

\* every value largest_value has taken has been sent to every worker, except
\* that the value just taken is still being sent, in worker order, by the
\* loop that follows the assignment (main.rs:73-75, :88-90)
BroadcastUpToDate ==
    Initialised =>
        \A w \in Workers :
            \/ sent[w] = held
            \/ /\ ctl_pc \in {"dispatch", "fanout"}
               /\ w >= ctl_idx
               /\ sent[w] = Front(held)

\* C2: largest_value never decreases from one step of a run to the next, and
\* every value it takes is sent to every worker's channel in the same step of
\* the controller (the handling of the message that brought it, or the
\* initial dispatch): all earlier values have been sent to everyone, and the
\* current one to every worker the send loop has passed.
C2_MonotoneAndBroadcast ==
    /\ [][largest_value' >= largest_value]_vars
    /\ []BroadcastUpToDate

\* an accepted value has been sent to every worker
C2_Witness ==
    /\ ctl_pc = "append"
    /\ Len(held) >= 2
    /\ \A w \in Workers : sent[w] = held /\ Last(sent[w]) = largest_value

(* -------------------------------- C3 ---------------------------------- *)

\* C3: the controller never waits in a send, in particular never in a send
\* to a worker whose channel is full while every worker waits in a send to
\* the full shared channel.
C3_NoSendDeadlock ==
    ~(BlockedInSend /\ \A w \in Workers : WorkerBlocked(w))

(* -------------------------------- C4 ---------------------------------- *)

\* C4: no step of a worker lowers its threshold.
C4_WorkerThresholdNeverLowered ==
    [][\A w \in Workers : w_largest'[w] >= w_largest[w]]_vars

(* -------------------------------- C5 ---------------------------------- *)

\* the key pair load-max found in the file this run opened, NoKey if none
StartupMax == checkpoint_with_largest_keypair(file0).starting_key

\* C5 as claimed: once initialised, largest_value/largest_keypair are the
\* last entry appended in this run or, with none appended, the maximum entry
\* found in the file at startup.
C5_MemoryMatchesFile ==
    (Initialised /\ ctl_pc \in {"dispatch", "recv", "fanout", "append"}) =>
        /\ largest_value = public_key_to_u128(largest_keypair)
        /\ largest_keypair = IF NewEntries # <<>> THEN Last(NewEntries).key
                             ELSE StartupMax

(* -------------------------------- C6 ---------------------------------- *)

\* C6: a run started after a kill begins with a largest_value that is at
\* least every largest_value the controller held in an earlier run.
C6_ResumesFromBest ==
    (restarts > 0 /\ Initialised) => held[1] >= best_prev

(* -------------------------------- C7 ---------------------------------- *)

\* C7 as claimed: after the handshake a worker's threshold is a value the
\* controller holds or has held as largest_value.
C7_ThresholdWasHeld ==
    \A w \in Workers : Searching(w) => w_largest[w] \in Range(held)

\* C7 amended: after the handshake a worker's threshold is either a value
\* the controller holds or has held as largest_value, or the value of the
\* candidate the worker itself last sent as Largest (which the controller may
\* reject); every threshold a worker takes from its channel is a value the
\* controller holds or has held.
C7_ThresholdHeldOrOwn ==
    \A w \in Workers :
        /\ Searching(w) => w_largest[w] \in Range(held) \cup {reported[w]}
        /\ Searching(w) => adopted[w] \in Range(held)
        /\ reported[w] # NoValue =>
              \/ reported[w] \in ArrivedValuesSet
              \/ \E i \in 1..Len(to_controller) :
                    /\ to_controller[i].from = w
                    /\ to_controller[i].kind = "Largest"
                    /\ public_key_to_u128(to_controller[i].key) = reported[w]

\* a worker keeps the value of its own candidate, which the controller has
\* rejected and never held
C7_Witness ==
    \E w \in Workers :
        /\ Searching(w)
        /\ w_largest[w] = reported[w]
        /\ w_largest[w] \notin Range(held)
        /\ \E i \in 1..Len(arrived) :
              arrived[i].value = w_largest[w] /\ ~arrived[i].accepted

(* -------------------------------- C8 ---------------------------------- *)

\* C8: no message is lost: while the controller runs, a message waiting in
\* the shared channel is received in the end, so the system is never stuck
\* with a message waiting.
C8_PendingMessageCanBeProcessed ==
    (proc = "running" /\ ~ControllerGone /\ to_controller # <<>>) => ENABLED Next

(* -------------------------------- C9 ---------------------------------- *)

\* C9: with any line in the file that is not a well-formed entry, startup
\* fails: no incumbent is chosen, nothing is sent and nothing is appended.
C9_BadLineIsFatal ==
    (\E i \in 1..Len(file0) : file0[i].kind # "entry") =>
        /\ ctl_pc \in {"spawn", "open", "load", "failed"}
        /\ ~Initialised
        /\ \A w \in Workers : sent[w] = <<>>
        /\ file = file0

(* -------------------------------- C10 --------------------------------- *)

\* C10: when the open of the checkpoint file fails, no worker thread exists.
C10_OpenFailsBeforeSpawn ==
    ctl_err = "unable to open checkpoint file" =>
        \A w \in Workers : w_pc[w] = "unspawned"

(* -------------------------------- C11 --------------------------------- *)

\* C11: a worker ends only by leaving its loop after a failed Progress send:
\* when the controller's ends of the channels are gone, neither the first
\* threshold receive nor a Largest send nor a Progress send makes the worker
\* panic.
C11_WorkerEndsWithoutPanic ==
    \A w \in Workers : w_pc[w] # "panicked"

(* -------------------------------- C12 --------------------------------- *)

StrictlyIncreasing(s) == \A i \in 1..(Len(s) - 1) : s[i] < s[i + 1]

NonDecreasing(s) == \A i \in 1..(Len(s) - 1) : s[i] <= s[i + 1]

\* the thresholds worker w has taken from its channel so far, in order: what
\* was sent to it less what still waits in the channel
Taken(w) == SubSeq(sent[w], 1, Len(sent[w]) - Len(to_thread[w]))

\* worker w completes the send of main.rs:127 in this step
SendsLargest(w) == w_pc[w] = "send_largest" /\ w_pc'[w] = "search"

\* C12: a worker that has taken its thresholds in increasing order never
\* sends a Largest whose value is less than or equal to the threshold it
\* last took from the controller (at the handshake or after a batch): its
\* own threshold is never below that one while it searches, the pair it is
\* about to send is greater, and the message it puts on the shared channel
\* carries that pair.
C12_ReportsAboveAdopted ==
    /\ [](\A w \in Workers :
            (Searching(w) /\ StrictlyIncreasing(Taken(w))) =>
                /\ w_largest[w] >= adopted[w]
                /\ w_pc[w] = "send_largest" =>
                      public_key_to_u128(w_pair[w]) > adopted[w])
    /\ [][\A w \in Workers :
            (SendsLargest(w) /\ StrictlyIncreasing(Taken(w))) =>
                /\ to_controller' = Append(to_controller, Largest(w_pair[w], w))
                /\ public_key_to_u128(w_pair[w]) > adopted[w]
                /\ adopted'[w] = adopted[w]]_vars

\* a worker has taken two thresholds, the second greater than the first, and
\* in the batch that followed has sent a Largest that still waits in the
\* shared channel
C12_Witness ==
    \E w \in Workers :
        /\ w_pc[w] = "search"
        /\ w_iter[w] >= 1
        /\ Len(Taken(w)) >= 2
        /\ StrictlyIncreasing(Taken(w))
        /\ adopted[w] = Last(Taken(w))
        /\ to_controller # <<>>
        /\ Last(to_controller) = Largest(Last(to_controller).key, w)
        /\ public_key_to_u128(Last(to_controller).key) = reported[w]
        /\ reported[w] > adopted[w]

(* -------------------------------- C13 --------------------------------- *)

\* every line of the file this run opened is a well-formed entry
AllValid == \A i \in 1..Len(file0) : file0[i].kind = "entry"

\* startup is over: the incumbent is chosen and every worker has been sent
\* its value
StartupDone == ctl_pc = "recv" /\ Initialised

\* line i of the file holds a greatest ComparableValue
IsMaximal(i) ==
    \A j \in 1..Len(file0) :
        public_key_to_u128(file0[j].key) <= public_key_to_u128(file0[i].key)

\* with no entry in the file the incumbent is one generated key pair, nothing
\* is written, and the load does not fail
FreshWhenEmpty ==
    file0 = <<>> =>
        /\ ctl_pc = "failed" => ctl_err = "unable to open checkpoint file"
        /\ StartupDone =>
              /\ largest_keypair \in Keys
              /\ held = <<public_key_to_u128(largest_keypair)>>
              /\ file = <<>>

\* C13 as claimed: startup on a file of N valid entries selects an entry of
\* greatest ComparableValue, the earliest line among those that share it;
\* with no entries one fresh key pair is generated and startup does not fail.
C13_FirstOfEqualMaxima ==
    /\ (AllValid /\ file0 # <<>> /\ StartupDone) =>
          \E i \in 1..Len(file0) :
              /\ largest_keypair = file0[i].key
              /\ IsMaximal(i)
              /\ \A j \in 1..(i - 1) :
                    public_key_to_u128(file0[j].key) < public_key_to_u128(file0[i].key)
    /\ FreshWhenEmpty

\* C13 amended: startup on a file of N valid entries selects an entry of
\* greatest ComparableValue, the latest line among those that share it; with
\* no entries one fresh key pair is generated and the load does not fail.
C13_LastOfEqualMaxima ==
    /\ (AllValid /\ file0 # <<>>) =>
          /\ ctl_pc = "failed" => ctl_err = "unable to open checkpoint file"
          /\ StartupDone =>
                \E i \in 1..Len(file0) :
                    /\ largest_keypair = file0[i].key
                    /\ largest_value = public_key_to_u128(file0[i].key)
                    /\ IsMaximal(i)
                    /\ \A j \in (i + 1)..Len(file0) :
                          public_key_to_u128(file0[j].key) < public_key_to_u128(file0[i].key)
    /\ FreshWhenEmpty

\* startup has finished on a file whose greatest value is shared by two
\* different key pairs, and the later one is the incumbent
C13_Witness ==
    /\ StartupDone
    /\ AllValid
    /\ \E i, j \in 1..Len(file0) :
          /\ i < j
          /\ IsMaximal(i)
          /\ IsMaximal(j)
          /\ file0[i].key # file0[j].key
          /\ largest_keypair = file0[j].key
          /\ \A k \in 1..Len(file0) : IsMaximal(k) => file0[k].key # file0[j].key \/ k = j

(* -------------------------------- C14 --------------------------------- *)

\* C14: a fatal error (the open fails, the file is malformed, an append
\* fails) reaches main, is reported once and ends the process with a
\* failure exit status.
C14_FatalErrorExitsAbnormally ==
    (ctl_pc = "failed" /\ proc = "exited") =>
        /\ reports = 1
        /\ exit_code # 0

(* -------------------------------- C15 --------------------------------- *)

\* worker w takes a threshold from its channel in this step
TakesThreshold(w) == Len(to_thread'[w]) < Len(to_thread[w])

PendingFrom(w) ==
    {i \in 1..Len(to_controller) : to_controller[i].from = w}

\* C16: no worker generates, compares or reports before it has taken its
\* first threshold: a worker that has taken none has run no iteration, holds
\* no pair, has reported nothing and has no message in the shared channel;
\* every message in the shared channel comes from a worker the initial
\* dispatch has served; and the first threshold a worker takes, which it
\* compares with until it reports or takes another, is the incumbent value
\* the controller computed at startup.
C16_NoSearchBeforeHandshake ==
    /\ [](\A w \in Workers :
            /\ Taken(w) = <<>> =>
                  /\ ~Searching(w)
                  /\ w_iter[w] = 0
                  /\ w_pair[w] = NoKey
                  /\ w_largest[w] = NoValue
                  /\ reported[w] = NoValue
                  /\ PendingFrom(w) = {}
            /\ (Searching(w) \/ PendingFrom(w) # {}) =>
                  /\ Initialised
                  /\ sent[w] # <<>>
                  /\ Taken(w)[1] = held[1]
                  /\ StartupMax # NoKey => held[1] = public_key_to_u128(StartupMax)
            /\ (Searching(w) /\ Len(Taken(w)) = 1 /\ reported[w] = NoValue) =>
                  w_largest[w] = held[1])
    /\ [][\A w \in Workers :
            (w_pc[w] = "await" /\ w_pc'[w] = "search") =>
                /\ Initialised
                /\ w_largest'[w] = held[1]
                /\ PendingFrom(w) = {}]_vars

\* the first worker has taken the incumbent's value and sent a greater
\* candidate while the initial dispatch has not yet served the second
C16_Witness ==
    /\ ctl_pc = "dispatch"
    /\ \E w, v \in Workers :
          /\ w_pc[v] = "await"
          /\ sent[v] = <<>>
          /\ Taken(w) = <<held[1]>>
          /\ reported[w] > held[1]
          /\ \E i \in PendingFrom(w) :
                /\ to_controller[i].kind = "Largest"
                /\ public_key_to_u128(to_controller[i].key) = reported[w]

(* -------------------------------- C17 --------------------------------- *)

\* the greatest value among the Largest messages of worker w that the
\* controller has not yet received, NoValue if there is none
PendingMax(w) ==
    LET S == {public_key_to_u128(to_controller[i].key) :
                 i \in {j \in PendingFrom(w) : to_controller[j].kind = "Largest"}}
    IN  IF S = {} THEN NoValue ELSE CHOOSE m \in S : \A x \in S : x <= m

\* worker w is inside a batch and would drop `pair` if it generated it now
WouldDiscard(w, pair) ==
    /\ w_pc[w] = "search"
    /\ w_iter[w] < BatchSize
    /\ ~Reports(w, public_key_to_u128(pair))

\* the controller receives a Largest message in this step
ReceivesLargest ==
    /\ to_controller # <<>>
    /\ to_controller' = Tail(to_controller)
    /\ Head(to_controller).kind = "Largest"

\* C17: the optimistic update never makes a worker drop a truly better
\* candidate: a pair a worker drops has a value that is at most the
\* controller's largest_value or at most the value of a Largest the worker
\* has sent and the controller has not yet received; and once the controller
\* has received a Largest its largest_value is at least that value and never
\* falls again.  So when the controller has received every Largest the
\* worker sent before the drop, its largest_value is at least the dropped
\* value.
C17_DiscardIsSafe ==
    /\ [](\A w \in Workers : \A pair \in Keys :
            WouldDiscard(w, pair) =>
                public_key_to_u128(pair) <= Max(largest_value, PendingMax(w)))
    /\ [][ReceivesLargest =>
            largest_value' >= public_key_to_u128(Head(to_controller).key)]_vars
    /\ [][Initialised => largest_value' >= largest_value]_vars

\* a worker inside a batch would drop a pair that is greater than the
\* controller's largest_value, because it has raised its own threshold to
\* the value of a Largest that still waits in the shared channel
C17_Witness ==
    \E w \in Workers : \E pair \in Keys :
        /\ WouldDiscard(w, pair)
        /\ w_iter[w] >= 1
        /\ public_key_to_u128(pair) > largest_value
        /\ public_key_to_u128(pair) <= PendingMax(w)
        /\ w_largest[w] = reported[w]
        /\ w_largest[w] > adopted[w]

(* -------------------------------- C18 --------------------------------- *)

\* C18: threshold updates are not lost on the way to the workers: if from
\* some point on the controller accepts nothing more, every worker comes to
\* hold the controller's final largest_value and keeps it.  A run that can
\* take no further step while the controller is alive is such a run, so in
\* its last state every worker holds largest_value.
C18_FinalThresholdReachesWorkers ==
    (proc = "running" /\ ~ControllerGone /\ Initialised /\ ~ENABLED Next) =>
        \A w \in Workers : w_largest[w] = largest_value

(* -------------------------------- C19 --------------------------------- *)

\* C19: within one run the entries the controller appends have strictly
\* increasing ComparableValues, each greater than the incumbent's value
\* chosen at startup; so the last appended line has the greatest value of
\* all lines in the file, and when the controller is back at its receive
\* after an append that line is its largest_keypair.
C19_AppendsIncrease ==
    Initialised =>
        /\ StrictlyIncreasing(AppendedValues)
        /\ \A i \in 1..Len(AppendedValues) : AppendedValues[i] > held[1]
        /\ (NewEntries # <<>> /\ ctl_pc # "failed") =>
              /\ Last(file).kind = "entry"
              /\ \A i \in 1..(Len(file) - 1) :
                    public_key_to_u128(file[i].key) < public_key_to_u128(Last(file).key)
        /\ (NewEntries # <<>> /\ ctl_pc = "recv") =>
              /\ Last(file).key = largest_keypair
              /\ public_key_to_u128(Last(file).key) = largest_value

\* two appends have completed in a run that found an entry in the file
C19_Witness ==
    /\ ctl_pc = "recv"
    /\ file0 # <<>>
    /\ AllValid
    /\ Len(NewEntries) >= 2
    /\ Last(file).key = largest_keypair

(* -------------------------------- C20 --------------------------------- *)

\* C20: the controller's threshold sends never fail: while the controller
\* runs no worker has ended, so the receiving end of every worker's channel
\* is open, the unwrap of a send to a worker never panics and the process
\* never ends by a panic of the main thread.
C20_ThresholdSendsNeverFail ==
    /\ ctl_pc # "panicked"
    /\ exit_code # 101
    /\ ~ControllerGone => \A w \in Workers : ~WorkerGone(w)

\* the fan-out of a second accepted candidate has just sent its value to
\* every worker, all of them alive
C20_Witness ==
    /\ ctl_pc = "append"
    /\ Len(held) >= 3
    /\ \A w \in Workers : ~WorkerGone(w) /\ Len(sent[w]) = Len(held)

====
